---- MODULE Spec2Model ----
(***************************************************************************)
(* DbmQueue (coilmq/store/dbm.py): a queue store keeping per-destination   *)
(* metadata in a write-back shelf (queue_metadata) and frame payloads in   *)
(* a write-through shelf (frame_store), with a checkpoint policy (_sync)   *)
(* that makes the metadata durable every checkpoint_operations operations  *)
(* or checkpoint_timeout time units.                                       *)
(***************************************************************************)
EXTENDS Integers, Sequences, FiniteSets, TLC

\* ------------------------------------------------------------------ inputs
Destinations == {"/queue/a", "/queue/b"}

\* frame.message_id values: two usable ids, the empty string and None.
None == "None"
ValidIds == {"1", "2"}
MessageIds == ValidIds \cup {"", None}
Bodies == {"x", "y"}
\* the frames callers pass: two bodies under id "1", so that a frame stored
\* over another with the same id can be told from it
Frames ==
    {[message_id |-> "1", body |-> "x"], [message_id |-> "1", body |-> "y"],
     [message_id |-> "2", body |-> "x"],
     [message_id |-> "", body |-> "x"], [message_id |-> None, body |-> "x"]}
NoFrame == [message_id |-> None, body |-> None]
\* the frames the threads pass: both ids, and the empty one
ThreadFrames == {f \in Frames : f.body = "x" /\ f.message_id # None}

\* ------------------------------------------------------------------ bounds
\* most frames pending for one destination
MaxPending == 2
\* most operations counted since the store was opened
MaxOps == 4
\* most calls the threads make
MaxCalls == 3
\* the clock stops here
MaxTime == 2

\* ----------------------------------------------------------------- threads
Threads == {"t1", "t2"}
NoThread == "none"

\* -------------------------------------------------- constructor parameters
checkpoint_operations == 2
checkpoint_timeout == 1

VARIABLES
    queue_metadata,   \* self.queue_metadata: destination -> entry (the shelf's cache view)
    disk_metadata,    \* what the metadata dbm file holds (durable)
    frame_store,      \* self.frame_store: message id -> frame (write-through)
    opcount,          \* self._opcount
    last_sync,        \* self._last_sync
    now,              \* datetime.now()
    result,           \* the last public call: its arguments and what it returned or raised
    log,              \* the last message _sync wrote to the debug log
    arrivals,         \* history: per destination, the frames accepted and not yet taken, oldest first
                      \* (their bodies are recorded until an id is reused while live)
    idReused,         \* history: some enqueue used an id that was still live
    dirtySince,       \* history: {time of the oldest metadata update not yet durable}, or {}
    ops,              \* history: operations that reached _sync since the store was opened
    flushes,          \* history: whether _sync has flushed since the store was opened
    lock,             \* self._lock: the thread that owns it and how often it acquired it
    pc,               \* per thread: the source line it executes next
    local,            \* per thread: the call's arguments and local variables
    closed,           \* the shelves that are not open
    calls             \* history: the calls the threads made

vars == <<queue_metadata, disk_metadata, frame_store, opcount, last_sync, now,
          result, log, arrivals, idReused, dirtySince, ops, flushes,
          lock, pc, local, closed, calls>>

\* what the threads add to the state
threadVars == <<lock, pc, local, closed, calls>>

\* ----------------------------------------------------------------- helpers
Range(s) == {s[i] : i \in 1..Len(s)}

\* a check for the empty string alone
FalsyEmptyOnly(message_id) == message_id = ""

\* Python truthiness of frame.message_id
Falsy(message_id) == message_id = "" \/ message_id = None

\* the record line 145 stores for a new destination
NewEntry == [frames |-> <<>>, enqueued |-> 0, dequeued |-> 0, size |-> 0]

\* shelf[key] = value on a shelf, for both shelves
SetItem(shelf, key, value) ==
    [k \in DOMAIN shelf \cup {key} |-> IF k = key THEN value ELSE shelf[k]]

\* del shelf[key]
DelItem(shelf, key) == [k \in DOMAIN shelf \ {key} |-> shelf[k]]

\* line 150: self.frame_store[message_id] = frame
frame_store_put(fs, message_id, frame) == SetItem(fs, message_id, frame)

\* dequeue that forgets line 173 and leaves the payload in the archive
frame_store_keep(fs, message_id) == fs

\* line 173: del self.frame_store[message_id]
frame_store_del(fs, message_id) == DelItem(fs, message_id)

\* a deque filled at the end it is emptied from
append_right(frames, message_id) == frames \o <<message_id>>

\* deque.appendleft
appendleft(frames, message_id) == <<message_id>> \o frames

\* the id read from the left end while the right end is removed
peek_left(frames) == frames[1]

\* deque.pop(): the rightmost element, and the deque without it
pop(frames) == frames[Len(frames)]

popped(frames) == SubSeq(frames, 1, Len(frames) - 1)

\* ------------------------------------------------------------------ queries
\* has_frames that forgets to look at the deque
has_frames_known(md, destination) == destination \in DOMAIN md

has_frames(md, destination) ==
    destination \in DOMAIN md /\ md[destination].frames # <<>>

\* size read from the entry's 'size' field, which nothing updates
size_field(md, destination) ==
    IF destination \notin DOMAIN md THEN 0 ELSE md[destination].size

size(md, destination) ==
    IF destination \notin DOMAIN md THEN 0 ELSE Len(md[destination].frames)

\* ------------------------------------------------------------------- result
Call(op, destination, frame) ==
    [op |-> op, kind |-> "None", frame |-> NoFrame, val |-> 0]

Raised(call, exc) == [call EXCEPT !.kind = exc]

Returned(call, kind, frame, val) ==
    [call EXCEPT !.kind = kind, !.frame = frame, !.val = val]

\* -------------------------------------------------------------------- _sync
\* the count test written with >=
sync_due_at_threshold(opc, t, last) ==
    opc >= checkpoint_operations \/ t > last + checkpoint_timeout

sync_due(opc, t, last) ==
    opc > checkpoint_operations \/ t > last + checkpoint_timeout

\* _sync that forgets line 231 and keeps counting
Sync_no_reset(opc, md, dsk) ==
    IF sync_due(opc, now, last_sync)
    THEN /\ disk_metadata' = md
         /\ opcount' = opc
         /\ last_sync' = now
         /\ log' = "Synchronizing queue metadata."
         /\ dirtySince' = {}
         /\ flushes' = TRUE
         /\ UNCHANGED now
    ELSE /\ opcount' = opc
         /\ log' = "NOT synchronizing queue metadata."
         /\ disk_metadata' = dsk
         /\ dirtySince' = IF dirtySince = {} THEN {now} ELSE dirtySince
         /\ UNCHANGED <<now, last_sync, flushes>>

\* _sync that forgets line 230 and keeps the old timestamp
Sync_stale_stamp(opc, md, dsk) ==
    IF sync_due(opc, now, last_sync)
    THEN /\ disk_metadata' = md
         /\ opcount' = 0
         /\ log' = "Synchronizing queue metadata."
         /\ dirtySince' = {}
         /\ flushes' = TRUE
         /\ UNCHANGED <<now, last_sync>>
    ELSE /\ opcount' = opc
         /\ log' = "NOT synchronizing queue metadata."
         /\ disk_metadata' = dsk
         /\ dirtySince' = IF dirtySince = {} THEN {now} ELSE dirtySince
         /\ UNCHANGED <<now, last_sync, flushes>>

\* _sync() called with the operation counter at opc, the cache at md and the
\* metadata file at dsk; the clock may advance between its two readings
Sync(opc, md, dsk) ==
    IF sync_due(opc, now, last_sync)
    THEN \E dt \in 0..1 :
            /\ now + dt <= MaxTime
            /\ now' = now + dt
            /\ last_sync' = now + dt
            /\ disk_metadata' = md
            /\ opcount' = 0
            /\ log' = "Synchronizing queue metadata."
            /\ dirtySince' = {}
            /\ flushes' = TRUE
    ELSE /\ opcount' = opc
         /\ log' = "NOT synchronizing queue metadata."
         /\ disk_metadata' = dsk
         /\ dirtySince' = IF dirtySince = {} THEN {now} ELSE dirtySince
         /\ UNCHANGED <<now, last_sync, flushes>>

\* a thread's locals: the method called, its arguments, message_id (lines 139,
\* 169), frame (line 172) and what the call will return or raise
Locals(op, destination, frame) ==
    [op |-> op, destination |-> destination, arg |-> frame, message_id |-> None,
     ret |-> Call(op, destination, frame)]

NoLocal == Locals("none", "", NoFrame)

\* --------------------------------------------------------------------- Init
Init ==
    /\ queue_metadata = <<>>
    /\ disk_metadata = <<>>
    /\ frame_store = <<>>
    /\ opcount = 0
    /\ now = 0
    /\ last_sync = 0
    /\ result = Call("open", "", NoFrame)
    /\ log = ""
    /\ arrivals = [d \in Destinations |-> <<>>]
    /\ idReused = FALSE
    /\ dirtySince = {}
    /\ ops = 0
    /\ flushes = FALSE
    /\ lock = [owner |-> NoThread, count |-> 0]
    /\ pc = [t \in Threads |-> "idle"]
    /\ local = [t \in Threads |-> NoLocal]
    /\ closed = {}
    /\ calls = 0

\* ------------------------------------------------------------------ enqueue
IsLive(message_id) ==
    \/ message_id \in DOMAIN frame_store
    \/ \E d \in DOMAIN queue_metadata : message_id \in Range(queue_metadata[d].frames)

\* enqueue with one deque object shared by the entries of all destinations
enqueue_metadata_shared(md, destination, message_id) ==
    LET md1 == IF destination \notin DOMAIN md
               THEN SetItem(md, destination, NewEntry)
               ELSE md
    IN [d \in DOMAIN md1 |->
           IF d = destination
           THEN [md1[d] EXCEPT !.frames = <<message_id>> \o @, !.enqueued = @ + 1]
           ELSE [md1[d] EXCEPT !.frames = <<message_id>> \o @]]

\* lines 143-148: the metadata after enqueue's update
enqueue_metadata(md, destination, message_id) ==
    LET md1 == IF destination \notin DOMAIN md
               THEN SetItem(md, destination, NewEntry)
               ELSE md
    IN [md1 EXCEPT ![destination].frames = appendleft(@, message_id),
                   ![destination].enqueued = @ + 1]

\* line 145 on the file: Shelf.__setitem__ writes a new key through at once
enqueue_disk(dsk, destination) ==
    IF destination \notin DOMAIN dsk THEN SetItem(dsk, destination, NewEntry) ELSE dsk

\* the history of accepted frames after one more was accepted
Accepted(destination, frame, reuses) ==
    LET all == [arrivals EXCEPT ![destination] = Append(@, frame)]
    IN IF idReused \/ reuses
       THEN [d \in Destinations |->
                [i \in 1..Len(all[d]) |-> [message_id |-> all[d][i].message_id,
                                           body |-> None]]]
       ELSE all

Enqueue(destination, frame) ==
    LET message_id == frame.message_id
        call == Call("enqueue", destination, frame)
    IN /\ UNCHANGED threadVars
       /\ IF Falsy(message_id)
          THEN /\ result' = Raised(call, "ValueError")
               /\ UNCHANGED <<queue_metadata, disk_metadata, frame_store, opcount,
                              last_sync, now, log, arrivals, idReused, dirtySince,
                              ops, flushes>>
          ELSE /\ size(queue_metadata, destination) < MaxPending
               /\ ops < MaxOps
               /\ queue_metadata' = enqueue_metadata(queue_metadata, destination, message_id)
               /\ frame_store' = frame_store_put(frame_store, message_id, frame)
               /\ result' = Returned(call, "None", NoFrame, 0)
               /\ arrivals' = Accepted(destination, frame, IsLive(message_id))
               /\ idReused' = (idReused \/ IsLive(message_id))
               /\ ops' = ops + 1
               /\ Sync(opcount + 1, queue_metadata',
                       enqueue_disk(disk_metadata, destination))

\* ------------------------------------------------------------------ dequeue
\* dequeue that drops the entry of a destination it has emptied
dequeue_metadata_purging(md, destination) ==
    IF Len(md[destination].frames) = 1
    THEN DelItem(md, destination)
    ELSE [md EXCEPT ![destination].frames = popped(@),
                    ![destination].dequeued = @ + 1]

\* dequeue that forgets line 170
dequeue_metadata_uncounted(md, destination) ==
    [md EXCEPT ![destination].frames = popped(@)]

\* lines 169-170: the metadata after dequeue's update
dequeue_metadata(md, destination) ==
    [md EXCEPT ![destination].frames = popped(@),
               ![destination].dequeued = @ + 1]

\* an empty dequeue that goes through lines 175-176 before it returns None
dequeue_empty_counted(call) ==
    /\ result' = Returned(call, "None", NoFrame, 0)
    /\ Sync(opcount + 1, queue_metadata, disk_metadata)
    /\ UNCHANGED <<queue_metadata, frame_store, arrivals, idReused, ops>>

\* lines 166-167: nothing pending, return None at once
dequeue_empty(call) ==
    /\ result' = Returned(call, "None", NoFrame, 0)
    /\ UNCHANGED <<queue_metadata, disk_metadata, frame_store, opcount, last_sync,
                   now, log, arrivals, idReused, dirtySince, ops, flushes>>

Dequeue(destination) ==
    LET call == Call("dequeue", destination, NoFrame)
        unchanged == UNCHANGED <<queue_metadata, disk_metadata, frame_store, opcount,
                                 last_sync, now, log, arrivals, idReused, dirtySince,
                                 ops, flushes>>
    IN UNCHANGED threadVars /\
       IF ~has_frames(queue_metadata, destination)
       THEN dequeue_empty(call)
       ELSE IF destination \notin DOMAIN queue_metadata
       THEN \* line 169: the shelf has no such key
            result' = Raised(call, "KeyError") /\ unchanged
       ELSE IF queue_metadata[destination].frames = <<>>
       THEN \* line 169: pop from an empty deque
            result' = Raised(call, "IndexError") /\ unchanged
       ELSE LET message_id == pop(queue_metadata[destination].frames)
            IN /\ queue_metadata' = dequeue_metadata(queue_metadata, destination)
               /\ arrivals' = [arrivals EXCEPT ![destination] = Tail(@)]
               /\ UNCHANGED idReused
               /\ IF message_id \notin DOMAIN frame_store
                  THEN \* line 172 raises KeyError: lines 173-176 do not run
                       /\ result' = Raised(call, "KeyError")
                       /\ dirtySince' = IF dirtySince = {} THEN {now} ELSE dirtySince
                       /\ UNCHANGED <<disk_metadata, frame_store, opcount, last_sync,
                                      now, log, ops, flushes>>
                  ELSE /\ ops < MaxOps
                       /\ frame_store' = frame_store_del(frame_store, message_id)
                       /\ result' = Returned(call, "frame", frame_store[message_id], 0)
                       /\ ops' = ops + 1
                       /\ Sync(opcount + 1, queue_metadata', disk_metadata)

\* ------------------------------------------------------- has_frames and size
\* has_frames that ends with a call of _sync, as enqueue and dequeue do
HasFrames_synced(destination) ==
    /\ result' = Returned(Call("has_frames", destination, NoFrame),
                          IF has_frames(queue_metadata, destination) THEN "True" ELSE "False",
                          NoFrame, 0)
    /\ Sync(opcount, queue_metadata, disk_metadata)
    /\ UNCHANGED <<queue_metadata, frame_store, arrivals, idReused, ops>>
    /\ UNCHANGED threadVars

HasFrames(destination) ==
    /\ result' = Returned(Call("has_frames", destination, NoFrame),
                          IF has_frames(queue_metadata, destination) THEN "True" ELSE "False",
                          NoFrame, 0)
    /\ UNCHANGED <<queue_metadata, disk_metadata, frame_store, opcount, last_sync,
                   now, log, arrivals, idReused, dirtySince, ops, flushes>>
    /\ UNCHANGED threadVars

Size(destination) ==
    /\ result' = Returned(Call("size", destination, NoFrame), "int", NoFrame,
                          size(queue_metadata, destination))
    /\ UNCHANGED <<queue_metadata, disk_metadata, frame_store, opcount, last_sync,
                   now, log, arrivals, idReused, dirtySince, ops, flushes>>
    /\ UNCHANGED threadVars

\* --------------------------------------------------------------------- time
Tick ==
    /\ now < MaxTime
    /\ now' = now + 1
    /\ UNCHANGED <<queue_metadata, disk_metadata, frame_store, opcount, last_sync,
                   result, log, arrivals, idReused, dirtySince, ops, flushes>>
    /\ UNCHANGED threadVars

\* --------------------------------------------------------------------- Spec
DoEnqueue == \E destination \in Destinations, frame \in Frames : Enqueue(destination, frame)

DoDequeue == \E destination \in Destinations : Dequeue(destination)

DoHasFrames == \E destination \in Destinations : HasFrames(destination)

DoSize == \E destination \in Destinations : Size(destination)

Next == DoEnqueue \/ DoDequeue \/ DoHasFrames \/ DoSize \/ Tick

Spec == Init /\ [][Next]_vars

\* ---------------------------------------------------------------- lifecycle
Shelves == {"metadata", "frames"}

\* what make_dbm finds: the configured store.dbm.data_dir, whether the path
\* exists and what os.access grants on it
DataDirs == {None, "", "/var/coilmq"}
Environments ==
    {e \in [data_dir : DataDirs, exists : BOOLEAN, access : SUBSET {"R", "W"}] :
        /\ e.data_dir \in {None, ""} => ~e.exists
        /\ ~e.exists => e.access = {}}

\* os.access granting the directory when either permission is there
ConfigCheck_either_access(env) ==
    IF Falsy(env.data_dir) THEN "missing"
    ELSE IF ~env.exists THEN "not found"
    ELSE IF env.access = {} THEN "no access"
    ELSE ""

\* lines 43-48: the check that raises ConfigError, or "" when all three pass
ConfigCheck(env) ==
    IF Falsy(env.data_dir) THEN "missing"
    ELSE IF ~env.exists THEN "not found"
    ELSE IF ~({"R", "W"} \subseteq env.access) THEN "no access"
    ELSE ""

\* shelve.open that starts from an empty database every time
shelve_open_new(dsk) == <<>>

\* lines 121, 126: shelve.open shows what the dbm file holds; a missing file is
\* created empty
shelve_open(dsk) == dsk

\* Shelf.close that skips the write-back of the cache
shelf_close_unsynced(md, dsk) == dsk

\* line 214: Shelf.close calls sync(), which writes every cached entry back
shelf_close(md, dsk) == md

\* the frames a store opened on this directory owes its subscribers
Owed(dsk, fs) ==
    [d \in Destinations |->
        IF d \in DOMAIN dsk
        THEN LET ids == dsk[d].frames
             IN [i \in 1..Len(ids) |->
                    LET id == ids[Len(ids) + 1 - i]
                    IN [message_id |-> id,
                        body |-> IF ~idReused /\ id \in DOMAIN fs
                                 THEN fs[id].body ELSE None]]
        ELSE <<>>]

\* make_dbm() (38-54) and, when the checks pass, DbmQueue.__init__ (96-126)
MakeDbm(env) ==
    LET call == Call("make_dbm", "", NoFrame)
    IN /\ closed = Shelves
       /\ IF ConfigCheck(env) # ""
          THEN /\ result' = Raised(call, "ConfigError")
               /\ UNCHANGED <<queue_metadata, opcount, last_sync, arrivals, closed>>
          ELSE /\ opcount' = 0
               /\ last_sync' = now
               /\ queue_metadata' = shelve_open(disk_metadata)
               /\ closed' = {}
               /\ arrivals' = Owed(disk_metadata, frame_store)
               /\ result' = Returned(call, "DbmQueue", NoFrame, 0)
       /\ UNCHANGED <<disk_metadata, frame_store, now, log, idReused, dirtySince, ops,
                      flushes, lock, pc, local, calls>>

\* close() (209-215)
Close ==
    /\ closed = {}
    /\ disk_metadata' = shelf_close(queue_metadata, disk_metadata)
    /\ closed' = Shelves
    /\ dirtySince' = {}
    /\ result' = Returned(Call("close", "", NoFrame), "None", NoFrame, 0)
    /\ UNCHANGED <<queue_metadata, frame_store, opcount, last_sync, now, log, arrivals,
                   idReused, ops, flushes, lock, pc, local, calls>>

\* the process ends without close(): the cache is gone, the files stay
Crash ==
    /\ closed = {}
    /\ queue_metadata' = <<>>
    /\ opcount' = 0
    /\ closed' = Shelves
    /\ dirtySince' = {}
    /\ arrivals' = [d \in Destinations |-> <<>>]
    /\ result' = Returned(Call("crash", "", NoFrame), "None", NoFrame, 0)
    /\ UNCHANGED <<disk_metadata, frame_store, last_sync, now, log, idReused, ops,
                   flushes, lock, pc, local, calls>>

\* before make_dbm ran: an empty data directory and no store
InitLifecycle ==
    /\ queue_metadata = <<>>
    /\ disk_metadata = <<>>
    /\ frame_store = <<>>
    /\ opcount = 0
    /\ now = 0
    /\ last_sync = 0
    /\ result = Call("none", "", NoFrame)
    /\ log = ""
    /\ arrivals = [d \in Destinations |-> <<>>]
    /\ idReused = FALSE
    /\ dirtySince = {}
    /\ ops = 0
    /\ flushes = FALSE
    /\ lock = [owner |-> NoThread, count |-> 0]
    /\ pc = [t \in Threads |-> "idle"]
    /\ local = [t \in Threads |-> NoLocal]
    /\ closed = Shelves
    /\ calls = 0

DoMakeDbm == \E env \in Environments : MakeDbm(env)

DoClientEnqueue ==
    \E destination \in Destinations : \E frame \in ThreadFrames :
        Enqueue(destination, frame)

\* the operations that change an open store
Running == closed = {} /\ (DoClientEnqueue \/ DoDequeue)

NextLifecycle == DoMakeDbm \/ Running \/ Close \/ Crash

SpecLifecycle == InitLifecycle /\ [][NextLifecycle]_vars

\* ================================================================== threads
\* The same operations, one source line at a time, called by Threads.  A
\* thread's pc is the line it executes next; "lock" waits for self._lock and
\* "return" leaves the method, releasing the lock.

\* the decorator left off the two queries
synchronized_writers == {"enqueue", "dequeue", "close"}

\* the methods that carry @synchronized (lines 128, 155, 180, 193, 209)
synchronized_methods == {"enqueue", "dequeue", "has_frames", "size", "close"}

Methods == {"enqueue", "dequeue", "has_frames", "size", "close"}

\* the first line of each method's body
Entry(op) ==
    CASE op = "enqueue" -> "139"
      [] op = "dequeue" -> "166"
      [] op = "has_frames" -> "191"
      [] op = "size" -> "204"
      [] op = "close" -> "214"

\* acquire of a threading.Lock, which its owner cannot take again
CanAcquire_plain_lock(t) == lock.owner = NoThread

\* RLock.acquire by thread t, possible when the lock is free or t's own
CanAcquire(t) == lock.owner \in {NoThread, t}

Acquired(t) == [owner |-> t, count |-> lock.count + 1]

\* RLock.release
Released ==
    IF lock.count <= 1
    THEN [owner |-> NoThread, count |-> 0]
    ELSE [lock EXCEPT !.count = @ - 1]

Goto(t, line) == pc' = [pc EXCEPT ![t] = line]

\* leave the method with an exception
Raise(t, exc) ==
    /\ local' = [local EXCEPT ![t].ret = Raised(@, exc)]
    /\ Goto(t, "return")

DirtyNow == dirtySince' = IF dirtySince = {} THEN {now} ELSE dirtySince

\* a caller invokes a method
Invoke(t) ==
    /\ pc[t] = "idle"
    /\ calls < MaxCalls
    /\ \E op \in Methods :
          \E destination \in IF op = "close" THEN {""} ELSE Destinations :
             \E frame \in IF op = "enqueue" THEN ThreadFrames ELSE {NoFrame} :
                local' = [local EXCEPT ![t] = Locals(op, destination, frame)]
    /\ calls' = calls + 1
    /\ Goto(t, "lock")
    /\ UNCHANGED <<queue_metadata, disk_metadata, frame_store, opcount, last_sync,
                   now, result, log, arrivals, idReused, dirtySince, ops, flushes,
                   lock, closed>>

\* the decorator takes the lock before the body runs
Acquire(t) ==
    /\ pc[t] = "lock"
    /\ IF local[t].op \in synchronized_methods
       THEN CanAcquire(t) /\ lock' = Acquired(t)
       ELSE UNCHANGED lock
    /\ Goto(t, Entry(local[t].op))
    /\ UNCHANGED <<queue_metadata, disk_metadata, frame_store, opcount, last_sync,
                   now, result, log, arrivals, idReused, dirtySince, ops, flushes,
                   local, closed, calls>>

\* the decorator releases the lock as the method returns or raises
Return(t) ==
    /\ pc[t] = "return"
    /\ lock' = IF local[t].op \in synchronized_methods /\ lock.owner = t
               THEN Released
               ELSE lock
    /\ result' = local[t].ret
    /\ local' = [local EXCEPT ![t] = NoLocal]
    /\ Goto(t, "idle")
    /\ UNCHANGED <<queue_metadata, disk_metadata, frame_store, opcount, last_sync,
                   now, log, arrivals, idReused, dirtySince, ops, flushes,
                   closed, calls>>

\* lines 139-141
Line139(t) ==
    /\ pc[t] = "139"
    /\ IF Falsy(local[t].arg.message_id)
       THEN Raise(t, "ValueError")
       ELSE /\ local' = [local EXCEPT ![t].message_id = local[t].arg.message_id]
            /\ Goto(t, "143")
    /\ UNCHANGED <<queue_metadata, disk_metadata, frame_store, opcount, last_sync,
                   now, result, log, arrivals, idReused, dirtySince, ops, flushes,
                   lock, closed, calls>>

\* lines 143-145
Line143(t) ==
    LET destination == local[t].destination
    IN /\ pc[t] = "143"
       /\ IF "metadata" \in closed
          THEN Raise(t, "ValueError") /\ UNCHANGED <<queue_metadata, disk_metadata>>
          ELSE /\ IF destination \notin DOMAIN queue_metadata
                  THEN /\ queue_metadata' = SetItem(queue_metadata, destination, NewEntry)
                       /\ disk_metadata' = enqueue_disk(disk_metadata, destination)
                  ELSE UNCHANGED <<queue_metadata, disk_metadata>>
               /\ Goto(t, "147")
               /\ UNCHANGED local
       /\ UNCHANGED <<frame_store, opcount, last_sync, now, result, log, arrivals,
                      idReused, dirtySince, ops, flushes, lock, closed, calls>>

\* line 147
Line147(t) ==
    LET destination == local[t].destination
        message_id == local[t].message_id
    IN /\ pc[t] = "147"
       /\ queue_metadata' = [queue_metadata EXCEPT
                                ![destination].frames = appendleft(@, message_id)]
       /\ arrivals' = Accepted(destination, local[t].arg, IsLive(message_id))
       /\ idReused' = (idReused \/ IsLive(message_id))
       /\ DirtyNow
       /\ Goto(t, "148")
       /\ UNCHANGED <<disk_metadata, frame_store, opcount, last_sync, now, result,
                      log, ops, flushes, lock, local, closed, calls>>

\* line 148
Line148(t) ==
    /\ pc[t] = "148"
    /\ queue_metadata' = [queue_metadata EXCEPT ![local[t].destination].enqueued = @ + 1]
    /\ Goto(t, "150")
    /\ UNCHANGED <<disk_metadata, frame_store, opcount, last_sync, now, result, log,
                   arrivals, idReused, dirtySince, ops, flushes, lock, local, closed,
                   calls>>

\* line 150
Line150(t) ==
    /\ pc[t] = "150"
    /\ frame_store' = frame_store_put(frame_store, local[t].message_id, local[t].arg)
    /\ Goto(t, "152")
    /\ UNCHANGED <<queue_metadata, disk_metadata, opcount, last_sync, now, result,
                   log, arrivals, idReused, dirtySince, ops, flushes, lock, local,
                   closed, calls>>

\* lines 152 and 175
LineOpcount(t) ==
    /\ pc[t] \in {"152", "175"}
    /\ opcount' = opcount + 1
    /\ ops' = ops + 1
    /\ Goto(t, "226")
    /\ UNCHANGED <<queue_metadata, disk_metadata, frame_store, last_sync, now,
                   result, log, arrivals, idReused, dirtySince, flushes, lock, local,
                   closed, calls>>

\* lines 226-227, and 233 when no flush is due
Line226(t) ==
    /\ pc[t] = "226"
    /\ IF sync_due(opcount, now, last_sync)
       THEN Goto(t, "229") /\ UNCHANGED log
       ELSE Goto(t, "return") /\ log' = "NOT synchronizing queue metadata."
    /\ UNCHANGED <<queue_metadata, disk_metadata, frame_store, opcount, last_sync,
                   now, result, arrivals, idReused, dirtySince, ops, flushes, lock,
                   local, closed, calls>>

\* lines 228-229
Line229(t) ==
    /\ pc[t] = "229"
    /\ log' = "Synchronizing queue metadata."
    /\ disk_metadata' = queue_metadata
    /\ dirtySince' = {}
    /\ flushes' = TRUE
    /\ Goto(t, "230")
    /\ UNCHANGED <<queue_metadata, frame_store, opcount, last_sync, now, result,
                   arrivals, idReused, ops, lock, local, closed, calls>>

\* line 230
Line230(t) ==
    /\ pc[t] = "230"
    /\ last_sync' = now
    /\ Goto(t, "231")
    /\ UNCHANGED <<queue_metadata, disk_metadata, frame_store, opcount, now, result,
                   log, arrivals, idReused, dirtySince, ops, flushes, lock, local,
                   closed, calls>>

\* line 231
Line231(t) ==
    /\ pc[t] = "231"
    /\ opcount' = 0
    /\ Goto(t, "return")
    /\ UNCHANGED <<queue_metadata, disk_metadata, frame_store, last_sync, now,
                   result, log, arrivals, idReused, dirtySince, ops, flushes, lock,
                   local, closed, calls>>

\* line 166: dequeue calls self.has_frames, which takes the lock again
Line166(t) ==
    /\ pc[t] = "166"
    /\ IF "has_frames" \in synchronized_methods
       THEN CanAcquire(t) /\ lock' = Acquired(t)
       ELSE UNCHANGED lock
    /\ Goto(t, "166:191")
    /\ UNCHANGED <<queue_metadata, disk_metadata, frame_store, opcount, last_sync,
                   now, result, log, arrivals, idReused, dirtySince, ops, flushes,
                   local, closed, calls>>

\* line 191 inside dequeue, the nested release, and lines 166-167
Line166Has(t) ==
    /\ pc[t] = "166:191"
    /\ lock' = IF "has_frames" \in synchronized_methods /\ lock.owner = t
               THEN Released
               ELSE lock
    /\ IF "metadata" \in closed
       THEN Raise(t, "ValueError")
       ELSE IF ~has_frames(queue_metadata, local[t].destination)
       THEN Goto(t, "return") /\ UNCHANGED local
       ELSE Goto(t, "169") /\ UNCHANGED local
    /\ UNCHANGED <<queue_metadata, disk_metadata, frame_store, opcount, last_sync,
                   now, result, log, arrivals, idReused, dirtySince, ops, flushes,
                   closed, calls>>

\* line 169
Line169(t) ==
    LET destination == local[t].destination
    IN /\ pc[t] = "169"
       /\ IF destination \notin DOMAIN queue_metadata
          THEN Raise(t, "KeyError") /\ UNCHANGED <<queue_metadata, arrivals, dirtySince>>
          ELSE IF queue_metadata[destination].frames = <<>>
          THEN Raise(t, "IndexError") /\ UNCHANGED <<queue_metadata, arrivals, dirtySince>>
          ELSE /\ local' = [local EXCEPT
                              ![t].message_id = pop(queue_metadata[destination].frames)]
               /\ queue_metadata' = [queue_metadata EXCEPT
                                        ![destination].frames = popped(@)]
               /\ arrivals' = [arrivals EXCEPT
                                  ![destination] = IF @ = <<>> THEN @ ELSE Tail(@)]
               /\ DirtyNow
               /\ Goto(t, "170")
       /\ UNCHANGED <<disk_metadata, frame_store, opcount, last_sync, now, result,
                      log, idReused, ops, flushes, lock, closed, calls>>

\* line 170
Line170(t) ==
    /\ pc[t] = "170"
    /\ queue_metadata' = [queue_metadata EXCEPT ![local[t].destination].dequeued = @ + 1]
    /\ Goto(t, "172")
    /\ UNCHANGED <<disk_metadata, frame_store, opcount, last_sync, now, result, log,
                   arrivals, idReused, dirtySince, ops, flushes, lock, local, closed,
                   calls>>

\* line 172; the frame is what line 178 returns
Line172(t) ==
    /\ pc[t] = "172"
    /\ IF local[t].message_id \notin DOMAIN frame_store
       THEN Raise(t, "KeyError")
       ELSE /\ local' = [local EXCEPT
                           ![t].ret = Returned(@, "frame", frame_store[local[t].message_id], 0)]
            /\ Goto(t, "173")
    /\ UNCHANGED <<queue_metadata, disk_metadata, frame_store, opcount, last_sync,
                   now, result, log, arrivals, idReused, dirtySince, ops, flushes,
                   lock, closed, calls>>

\* line 173
Line173(t) ==
    /\ pc[t] = "173"
    /\ IF local[t].message_id \notin DOMAIN frame_store
       THEN Raise(t, "KeyError") /\ UNCHANGED frame_store
       ELSE /\ frame_store' = frame_store_del(frame_store, local[t].message_id)
            /\ Goto(t, "175")
            /\ UNCHANGED local
    /\ UNCHANGED <<queue_metadata, disk_metadata, opcount, last_sync, now, result,
                   log, arrivals, idReused, dirtySince, ops, flushes, lock, closed,
                   calls>>

\* line 191, has_frames called by a caller
Line191(t) ==
    /\ pc[t] = "191"
    /\ IF "metadata" \in closed
       THEN Raise(t, "ValueError")
       ELSE /\ local' = [local EXCEPT
                           ![t].ret = Returned(@, IF has_frames(queue_metadata,
                                                                local[t].destination)
                                                  THEN "True" ELSE "False", NoFrame, 0)]
            /\ Goto(t, "return")
    /\ UNCHANGED <<queue_metadata, disk_metadata, frame_store, opcount, last_sync,
                   now, result, log, arrivals, idReused, dirtySince, ops, flushes,
                   lock, closed, calls>>

\* lines 204-207
Line204(t) ==
    /\ pc[t] = "204"
    /\ IF "metadata" \in closed
       THEN Raise(t, "ValueError")
       ELSE /\ local' = [local EXCEPT
                           ![t].ret = Returned(@, "int", NoFrame,
                                               size(queue_metadata, local[t].destination))]
            /\ Goto(t, "return")
    /\ UNCHANGED <<queue_metadata, disk_metadata, frame_store, opcount, last_sync,
                   now, result, log, arrivals, idReused, dirtySince, ops, flushes,
                   lock, closed, calls>>

\* line 214: Shelf.close writes the cache back and closes the metadata file
Line214(t) ==
    /\ pc[t] = "214"
    /\ IF "metadata" \in closed
       THEN UNCHANGED <<disk_metadata, dirtySince, closed>>
       ELSE /\ disk_metadata' = shelf_close(queue_metadata, disk_metadata)
            /\ dirtySince' = {}
            /\ closed' = closed \cup {"metadata"}
    /\ Goto(t, "215")
    /\ UNCHANGED <<queue_metadata, frame_store, opcount, last_sync, now, result, log,
                   arrivals, idReused, ops, flushes, lock, local, calls>>

\* line 215
Line215(t) ==
    /\ pc[t] = "215"
    /\ closed' = closed \cup {"frames"}
    /\ Goto(t, "return")
    /\ UNCHANGED <<queue_metadata, disk_metadata, frame_store, opcount, last_sync,
                   now, result, log, arrivals, idReused, dirtySince, ops, flushes,
                   lock, local, calls>>

ThreadStep ==
    \E t \in Threads :
        \/ Invoke(t) \/ Acquire(t) \/ Return(t)
        \/ Line139(t) \/ Line143(t) \/ Line147(t) \/ Line148(t) \/ Line150(t)
        \/ LineOpcount(t) \/ Line226(t) \/ Line229(t) \/ Line230(t) \/ Line231(t)
        \/ Line166(t) \/ Line166Has(t) \/ Line169(t) \/ Line170(t) \/ Line172(t)
        \/ Line173(t) \/ Line191(t) \/ Line204(t) \/ Line214(t) \/ Line215(t)

NextThreads == ThreadStep \/ Tick

SpecThreads == Init /\ [][NextThreads]_vars

\* ----------------------------------------------------------------- progress
\* a step of thread t inside the method it called
ThreadRuns(t) ==
    \/ Return(t)
    \/ Line139(t) \/ Line143(t) \/ Line147(t) \/ Line148(t) \/ Line150(t)
    \/ LineOpcount(t) \/ Line226(t) \/ Line229(t) \/ Line230(t) \/ Line231(t)
    \/ Line166(t) \/ Line166Has(t) \/ Line169(t) \/ Line170(t) \/ Line172(t)
    \/ Line173(t) \/ Line191(t) \/ Line204(t) \/ Line214(t) \/ Line215(t)

\* fair scheduling: a thread that can go on inside its method does, and a
\* thread waiting for a lock that is free again and again gets it
Fairness ==
    \A t \in Threads : WF_vars(ThreadRuns(t)) /\ SF_vars(Acquire(t))

SpecProgress == Init /\ [][ThreadStep]_vars /\ Fairness

\* ================================================================== claims
RECURSIVE SumOver(_, _)
SumOver(S, f) ==
    IF S = {} THEN 0
    ELSE LET x == CHOOSE y \in S : TRUE IN f[x] + SumOver(S \ {x}, f)

\* a deque read from its right end, the end dequeue takes from
Reverse(s) == [i \in 1..Len(s) |-> s[Len(s) + 1 - i]]

\* the message ids of a sequence of frames
Ids(s) == [i \in 1..Len(s) |-> s[i].message_id]

Pending(d) == IF d \in DOMAIN queue_metadata THEN queue_metadata[d].frames ELSE <<>>

StateUnchanged ==
    UNCHANGED <<queue_metadata, disk_metadata, frame_store, opcount, last_sync, log>>

\* ---------------------------------------------------------------------- C1
\* C1 as stated: every dequeue(d) on a destination with pending frames returns
\* the frame whose id is the oldest one enqueued to d and not yet dequeued.
C1_FifoAnyIds ==
    [][\A d \in Destinations :
          (Pending(d) # <<>> /\ Dequeue(d))
          => /\ result'.kind = "frame"
             /\ result'.frame.message_id = Head(arrivals[d]).message_id]_vars

\* C1 amended: as long as no message id was enqueued while a frame with that
\* id was still live, every dequeue(d) on a destination with pending frames
\* returns the frame stored under the oldest outstanding id of d, and the
\* pending ids of d stay in arrival order.
C1_FifoUniqueIds ==
    [][\A d \in Destinations :
          (Pending(d) # <<>> /\ ~idReused /\ Dequeue(d))
          => /\ result'.kind = "frame"
             /\ result'.frame = frame_store[Head(arrivals[d]).message_id]
             /\ result'.frame.message_id = Head(arrivals[d]).message_id
             /\ Reverse(queue_metadata'[d].frames) = Ids(arrivals'[d])]_vars

\* "1" then "2" went to /queue/a; the first dequeue gave "1" and left "2".
C1_Witness ==
    /\ ~idReused
    /\ result.op = "dequeue" /\ result.kind = "frame" /\ result.frame.message_id = "1"
    /\ DOMAIN queue_metadata = {"/queue/a"}
    /\ queue_metadata["/queue/a"].enqueued = 2
    /\ queue_metadata["/queue/a"].frames = <<"2">>

\* ---------------------------------------------------------------------- C2
\* C2: for every destination with a metadata entry, enqueued - dequeued is the
\* length of its pending sequence, which is what size returns.
C2_CounterInvariant ==
    \A d \in DOMAIN queue_metadata :
        /\ queue_metadata[d].enqueued - queue_metadata[d].dequeued
              = Len(queue_metadata[d].frames)
        /\ size(queue_metadata, d) = Len(queue_metadata[d].frames)

\* after a dequeue that failed on a missing payload, with a frame still pending
C2_Witness ==
    /\ result.op = "dequeue" /\ result.kind = "KeyError"
    /\ \E d \in DOMAIN queue_metadata :
          queue_metadata[d].dequeued >= 1 /\ Len(queue_metadata[d].frames) >= 1

\* ---------------------------------------------------------------------- C3
\* C3 as stated: every pending id has a payload in the frame archive, after
\* any sequence of enqueue and dequeue calls.
C3_PendingArchived ==
    \A d \in DOMAIN queue_metadata :
        Range(queue_metadata[d].frames) \subseteq DOMAIN frame_store

\* C3 amended: as long as no message id was enqueued while a frame with that
\* id was still live, every pending id has a payload in the frame archive,
\* stored under its own id.
C3_PendingArchivedUniqueIds ==
    ~idReused =>
        \A d \in DOMAIN queue_metadata :
            \A id \in Range(queue_metadata[d].frames) :
                id \in DOMAIN frame_store /\ frame_store[id].message_id = id

\* both destinations hold a pending id after a dequeue removed another one
C3_Witness ==
    /\ ~idReused
    /\ result.op = "dequeue" /\ result.kind = "frame"
    /\ \E d \in DOMAIN queue_metadata :
          queue_metadata[d].dequeued >= 1 /\ queue_metadata[d].frames # <<>>

\* ---------------------------------------------------------------------- C4
\* C4: enqueue with an empty or missing message id raises the validation
\* error and changes nothing: no entry is created, pending sequences,
\* counters, archive, operation counter and last-flush time stay, nothing is
\* flushed, and size(d) is what it was.
C4_Validation ==
    [][\A d \in Destinations : \A f \in Frames :
          (f.message_id \in {"", None} /\ Enqueue(d, f))
          => /\ result'.kind = "ValueError"
             /\ StateUnchanged
             /\ DOMAIN queue_metadata' = DOMAIN queue_metadata
             /\ Len(Pending(d)') = Len(Pending(d))]_vars

\* a rejected enqueue on a store that holds a pending frame and unflushed work
C4_Witness ==
    /\ result.op = "enqueue" /\ result.kind = "ValueError"
    /\ opcount > 0
    /\ \E d \in DOMAIN queue_metadata : queue_metadata[d].frames # <<>>
    /\ DOMAIN queue_metadata # Destinations

\* ---------------------------------------------------------------------- C5
\* C5: dequeue on an unknown destination or on one with nothing pending
\* returns None without failing and leaves counters, pending sequences and
\* the archive as they were.
C5_EmptyQueueSafety ==
    [][\A d \in Destinations :
          (Pending(d) = <<>> /\ Dequeue(d))
          => /\ result'.kind = "None"
             /\ StateUnchanged]_vars

\* a dequeue that returned None from a destination that was emptied before
C5_Witness ==
    /\ result.op = "dequeue" /\ result.kind = "None"
    /\ \E d \in DOMAIN queue_metadata :
          queue_metadata[d].frames = <<>> /\ queue_metadata[d].dequeued >= 1
    /\ frame_store # <<>>

\* ---------------------------------------------------------------------- C6
\* C6: has_frames(d) is true exactly when size(d) > 0, for every destination,
\* and an unknown destination has size 0 and no frames.
C6_ExistenceConsistency ==
    \A d \in Destinations :
        /\ has_frames(queue_metadata, d) <=> size(queue_metadata, d) > 0
        /\ d \notin DOMAIN queue_metadata
              => size(queue_metadata, d) = 0 /\ ~has_frames(queue_metadata, d)

\* one destination unknown, one known and emptied, and the query said False
C6_Witness ==
    /\ result.op = "has_frames" /\ result.kind = "False"
    /\ \E d \in DOMAIN queue_metadata :
          queue_metadata[d].frames = <<>> /\ queue_metadata[d].enqueued >= 1
    /\ DOMAIN queue_metadata # Destinations

\* ---------------------------------------------------------------------- C7
\* an enqueue that passed validation, or a dequeue that returned a frame
CountedStep ==
    \/ result'.op = "enqueue" /\ result'.kind = "None"
          /\ \E d \in Destinations, f \in Frames : Enqueue(d, f)
    \/ result'.op = "dequeue" /\ result'.kind = "frame"
          /\ \E d \in Destinations : Dequeue(d)

\* C7: a counted operation flushes the metadata exactly when, with the
\* operation counter incremented, the counter exceeds checkpoint_operations or
\* more than checkpoint_timeout has passed since the last flush; on a freshly
\* opened store whose timeout does not elapse, the first
\* checkpoint_operations operations do not flush and the next one does.
C7_CheckpointTrigger ==
    /\ [][CountedStep =>
            /\ (log' = "Synchronizing queue metadata.")
                  <=> (opcount + 1 > checkpoint_operations
                          \/ now - last_sync > checkpoint_timeout)
            /\ (log' = "Synchronizing queue metadata.")
                  <=> (disk_metadata' = queue_metadata' /\ opcount' = 0)
            /\ (log' = "NOT synchronizing queue metadata.")
                  <=> (disk_metadata' # queue_metadata' /\ opcount' = opcount + 1)]_vars
    /\ [](now <= checkpoint_timeout =>
            /\ ops <= checkpoint_operations => ~flushes /\ opcount = ops
            /\ ops = checkpoint_operations + 1 => flushes /\ opcount = 0)

\* the flush of operation checkpoint_operations + 1, the timeout not elapsed
C7_Witness ==
    /\ now <= checkpoint_timeout
    /\ ops = checkpoint_operations + 1
    /\ flushes /\ opcount = 0
    /\ log = "Synchronizing queue metadata."
    /\ disk_metadata = queue_metadata

\* ---------------------------------------------------------------------- C8
\* enqueues and dequeues whose effect on the counters is in memory only
Divergence ==
    SumOver(DOMAIN queue_metadata,
            [d \in DOMAIN queue_metadata |->
                (queue_metadata[d].enqueued + queue_metadata[d].dequeued)
                - (IF d \in DOMAIN disk_metadata
                   THEN disk_metadata[d].enqueued + disk_metadata[d].dequeued
                   ELSE 0)])

C9_ElapsedTimeLossBound ==
    disk_metadata # queue_metadata
        => \A t \in dirtySince : now - t <= checkpoint_timeout

\* --------------------------------------------------------------------- C10
\* thread t is executing the body of a public operation
InBody(t) == pc[t] \notin {"idle", "lock"}

\* no operation is half done: counters match the pending sequences, pending
\* ids and archived payloads correspond (ids not reused), the operation
\* counter is within its bound and is reset whenever the file is up to date
Settled ==
    /\ \A d \in DOMAIN queue_metadata :
          queue_metadata[d].enqueued - queue_metadata[d].dequeued
             = Len(queue_metadata[d].frames)
    /\ ~idReused =>
          DOMAIN frame_store
             = UNION {Range(queue_metadata[d].frames) : d \in DOMAIN queue_metadata}
    /\ opcount <= checkpoint_operations
    /\ (closed = {} /\ disk_metadata = queue_metadata) => opcount = 0

\* C10: at most one thread is inside the body of a public operation, it holds
\* the lock from its first line until it returns, any flush included, and
\* whoever enters a body, or finds the lock free, finds no operation half done.
C10_MutualExclusion ==
    /\ \A t1 \in Threads : \A t2 \in Threads : InBody(t1) /\ InBody(t2) => t1 = t2
    /\ \A t \in Threads : InBody(t) => lock.owner = t /\ lock.count >= 1
    /\ lock.owner = NoThread => Settled
    /\ \A t \in Threads : pc[t] \in {Entry(op) : op \in Methods} => Settled

\* t1 is between lines 229 and 231 of a flush, the file written and the
\* operation counter not yet reset, while t2 waits for the lock
C10_Witness ==
    /\ pc["t1"] = "231" /\ lock.owner = "t1"
    /\ disk_metadata = queue_metadata /\ opcount > 0
    /\ pc["t2"] = "lock" /\ local["t2"].op = "size"

\* ---------------------------------------------------------------------- C11
\* C11: has_frames(d) and size(d) are read-only.  A step of either leaves
\* every pending sequence, every counter, the set of metadata entries (an
\* unknown destination gets no entry), the frame archive, the operation
\* counter, the last-flush timestamp and the durable metadata as they were,
\* and writes no flush, whether or not checkpoint_timeout has elapsed.
C11_ReadOnlyQueries ==
    [][\A d \in Destinations :
          (HasFrames(d) \/ Size(d))
              => /\ queue_metadata' = queue_metadata
                 /\ DOMAIN queue_metadata' = DOMAIN queue_metadata
                 /\ frame_store' = frame_store
                 /\ opcount' = opcount
                 /\ last_sync' = last_sync
                 /\ disk_metadata' = disk_metadata
                 /\ log' = log
                 /\ flushes' = flushes]_vars

\* a query of an unknown destination answered while the timeout has elapsed
\* and updates are waiting for a flush
C11_Witness ==
    /\ result.op \in {"has_frames", "size"}
    /\ result.kind \in {"False", "int"}
    /\ now > last_sync + checkpoint_timeout
    /\ opcount > 0
    /\ disk_metadata # queue_metadata
    /\ \E d \in Destinations : d \notin DOMAIN queue_metadata

\* ---------------------------------------------------------------------- C12
\* what successive dequeue(d) calls return until d is empty, from metadata md
\* and archive fs
RECURSIVE Drain(_, _, _)
Drain(md, fs, d) ==
    IF d \notin DOMAIN md \/ md[d].frames = <<>> THEN <<>>
    ELSE LET id == md[d].frames[Len(md[d].frames)]
         IN IF id \notin DOMAIN fs THEN <<"KeyError">>
            ELSE <<fs[id]>> \o Drain([md EXCEPT ![d].frames = SubSeq(@, 1, Len(@) - 1)],
                                     [k \in DOMAIN fs \ {id} |-> fs[k]], d)

\* C12: close() makes the whole in-memory metadata durable whatever the
\* operation counter and the thresholds are, and a store reopened on the same
\* data directory after close() answers size(d) and has_frames(d), shows the
\* enqueued and dequeued counters and returns the frames of successive
\* dequeues exactly as the store did before close().
C12_CloseReopen ==
    [][/\ Close => /\ disk_metadata' = queue_metadata
                   /\ frame_store' = frame_store
       /\ (result.op = "close" /\ closed' = {} /\ DoMakeDbm)
            => /\ queue_metadata' = queue_metadata
               /\ frame_store' = frame_store
               /\ \A d \in Destinations :
                     /\ size(queue_metadata', d) = size(queue_metadata, d)
                     /\ has_frames(queue_metadata', d) = has_frames(queue_metadata, d)
                     /\ Drain(queue_metadata', frame_store', d)
                          = Drain(queue_metadata, frame_store, d)]_vars

\* a store just reopened after close(): frames are pending although _sync
\* never flushed
C12_Witness ==
    /\ result.op = "make_dbm" /\ result.kind = "DbmQueue"
    /\ ~flushes
    /\ opcount = 0
    /\ \E d \in DOMAIN queue_metadata : Len(queue_metadata[d].frames) = 2

\* ---------------------------------------------------------------------- C13
\* C13: when the configured data directory path is missing, does not exist or
\* is not both readable and writable, make_dbm fails with a configuration
\* error and opens or creates neither store; the stores are opened only by a
\* make_dbm call for which all three checks pass.
C13_ConfigurationError ==
    [][/\ \A env \in Environments :
             (/\ \/ env.data_dir \in {None, ""}
                 \/ ~env.exists
                 \/ "R" \notin env.access
                 \/ "W" \notin env.access
              /\ MakeDbm(env))
             => /\ result'.kind = "ConfigError"
                /\ closed' = Shelves
                /\ UNCHANGED <<queue_metadata, disk_metadata, frame_store>>
       /\ (closed = Shelves /\ closed' # Shelves)
            => \E env \in Environments :
                  /\ env.data_dir = "/var/coilmq" /\ env.exists
                  /\ env.access = {"R", "W"}
                  /\ MakeDbm(env)]_vars

\* make_dbm refused a data directory that holds frames of an earlier run
C13_Witness ==
    /\ result.op = "make_dbm" /\ result.kind = "ConfigError"
    /\ closed = Shelves
    /\ frame_store # <<>>

\* ---------------------------------------------------------------------- C14
\* C14: right after a flush by _sync the operation counter is 0, the
\* last-flush timestamp is the current time and the durable metadata equals
\* the in-memory metadata for every destination; when _sync decides not to
\* flush, it leaves the operation counter (already incremented by the
\* operation), the last-flush timestamp and the durable metadata as they were.
\* Nothing but a flush moves the last-flush timestamp.
C14_FlushEffect ==
    [][/\ CountedStep =>
            IF log' = "Synchronizing queue metadata."
            THEN /\ opcount' = 0
                 /\ last_sync' = now'
                 /\ DOMAIN disk_metadata' = DOMAIN queue_metadata'
                 /\ \A d \in DOMAIN queue_metadata' :
                       disk_metadata'[d] = queue_metadata'[d]
            ELSE /\ opcount' = opcount + 1
                 /\ last_sync' = last_sync
                 /\ \A d \in DOMAIN disk_metadata :
                       d \in DOMAIN disk_metadata' /\ disk_metadata'[d] = disk_metadata[d]
                 /\ \A d \in DOMAIN disk_metadata' \ DOMAIN disk_metadata :
                       disk_metadata'[d] = NewEntry
       /\ last_sync' # last_sync
            => CountedStep /\ log' = "Synchronizing queue metadata."]_vars

\* a flush at a later time than the one before, of metadata with a pending
\* frame
C14_Witness ==
    /\ log = "Synchronizing queue metadata."
    /\ result.op = "dequeue" /\ result.kind = "frame"
    /\ opcount = 0
    /\ last_sync = now /\ now > 0
    /\ disk_metadata = queue_metadata
    /\ \E d \in DOMAIN queue_metadata : queue_metadata[d].frames # <<>>

\* ---------------------------------------------------------------------- C15
\* C15: a dequeue(d) that finds no pending frame returns None before _sync is
\* reached: it does not increment the operation counter, does not move the
\* last-flush timestamp and flushes nothing, even when checkpoint_timeout has
\* elapsed or updates wait for a flush.  The operation counter moves only in
\* an enqueue that passed validation or a dequeue that removed a frame.
C15_EmptyDequeueUncounted ==
    [][/\ \A d \in Destinations :
             (Pending(d) = <<>> /\ Dequeue(d))
             => /\ result'.kind = "None"
                /\ opcount' = opcount
                /\ last_sync' = last_sync
                /\ disk_metadata' = disk_metadata
                /\ log' = log
                /\ flushes' = flushes
       /\ opcount' # opcount => CountedStep]_vars

\* an empty dequeue answered while the timeout has elapsed and updates wait
\* for a flush
C15_Witness ==
    /\ result.op = "dequeue" /\ result.kind = "None"
    /\ now > last_sync + checkpoint_timeout
    /\ opcount > 0
    /\ disk_metadata # queue_metadata

\* ---------------------------------------------------------------------- C16
\* the ids pending for any destination
PendingIds == UNION {Range(Pending(d)) : d \in Destinations}

\* C16: as long as no message id is reused while live, a dequeue(d) with
\* pending frames returns exactly the frame that was passed to enqueue with
\* the id at the head of d, and afterwards that id is in no pending sequence
\* and its key is absent from the archive; so in every reachable state of a
\* running store the key set of the archive is the set of pending ids.
C16_DequeueRoundTrip ==
    /\ [][\A d \in Destinations :
             (Pending(d) # <<>> /\ ~idReused /\ Dequeue(d))
             => LET id == Pending(d)[Len(Pending(d))]
                IN /\ result'.kind = "frame"
                   /\ Head(arrivals[d]).message_id = id
                   /\ result'.frame = Head(arrivals[d])
                   /\ id \notin PendingIds'
                   /\ id \notin DOMAIN frame_store']_vars
    /\ [](~idReused => DOMAIN frame_store = PendingIds)

\* the frame enqueued as ("1", "y") came back from dequeue while "2" is still
\* pending and archived
C16_Witness ==
    /\ ~idReused
    /\ result.op = "dequeue" /\ result.kind = "frame"
    /\ result.frame = [message_id |-> "1", body |-> "y"]
    /\ DOMAIN frame_store = {"2"}
    /\ PendingIds = {"2"}

\* ---------------------------------------------------------------------- C17
\* C17: a crash between flushes followed by a reopen can leave the archive
\* holding a payload whose id is in no pending sequence, and a pending
\* sequence holding an id whose payload is gone (C17_Witness is such a
\* state); opening the store repairs neither: the opened store shows the
\* metadata file and the archive exactly as the crash left them.
C17_NoRepairOnOpen ==
    [][/\ Crash => UNCHANGED <<disk_metadata, frame_store>>
       /\ (closed' = {} /\ DoMakeDbm)
            => /\ queue_metadata' = disk_metadata
               /\ UNCHANGED <<disk_metadata, frame_store>>]_vars

\* a store reopened after a crash, no id ever reused: an archived payload that
\* is pending nowhere and a pending id without a payload
C17_Witness ==
    /\ ~idReused
    /\ closed = {}
    /\ result.op = "make_dbm" /\ result.kind = "DbmQueue"
    /\ DOMAIN frame_store \ PendingIds # {}
    /\ PendingIds \ DOMAIN frame_store # {}

\* ---------------------------------------------------------------------- C18
\* C18: the metadata entry of a destination is created by the first enqueue
\* to it that passes validation, from an empty pending sequence and
\* enqueued = dequeued = 0, so that after the enqueue it holds that one id and
\* enqueued = 1; an entry is never removed; dequeue, has_frames and size on a
\* destination without an entry create none; the enqueued and dequeued
\* counters of an entry never decrease.
C18_EntryLifecycle ==
    [][/\ DOMAIN queue_metadata \subseteq DOMAIN queue_metadata'
       /\ \A d \in DOMAIN queue_metadata :
             /\ queue_metadata'[d].enqueued >= queue_metadata[d].enqueued
             /\ queue_metadata'[d].dequeued >= queue_metadata[d].dequeued
       /\ \A d \in DOMAIN queue_metadata' \ DOMAIN queue_metadata :
             \E f \in Frames :
                /\ f.message_id \in ValidIds
                /\ Enqueue(d, f)
                /\ queue_metadata'[d] = [frames |-> <<f.message_id>>, enqueued |-> 1,
                                         dequeued |-> 0, size |-> 0]
                /\ DOMAIN queue_metadata' = DOMAIN queue_metadata \cup {d}
       /\ \A d \in Destinations \ DOMAIN queue_metadata :
             (Dequeue(d) \/ HasFrames(d) \/ Size(d))
                => DOMAIN queue_metadata' = DOMAIN queue_metadata]_vars

\* /queue/a was emptied and keeps its entry; /queue/b was asked about and has
\* none
C18_Witness ==
    /\ DOMAIN queue_metadata = {"/queue/a"}
    /\ queue_metadata["/queue/a"].frames = <<>>
    /\ queue_metadata["/queue/a"].enqueued = 2
    /\ queue_metadata["/queue/a"].dequeued = 2
    /\ result.op \in {"has_frames", "size"}

\* ---------------------------------------------------------------------- C20
\* C20: an enqueue or dequeue on destination d leaves the metadata entry
\* (pending sequence and counters) of every other destination as it was and
\* creates or removes no entry for it; when no id is shared between live
\* frames, it also leaves the archived payload of every frame pending for the
\* other destination as it was, so that the frames dequeues on the other
\* destination return, and their order, are the same.
C20_DestinationIsolation ==
    [][\A d \in Destinations :
          (\/ result'.op = "enqueue" /\ \E f \in Frames : Enqueue(d, f)
           \/ result'.op = "dequeue" /\ Dequeue(d))
          => \A e \in Destinations \ {d} :
                /\ (e \in DOMAIN queue_metadata') <=> (e \in DOMAIN queue_metadata)
                /\ e \in DOMAIN queue_metadata => queue_metadata'[e] = queue_metadata[e]
                /\ Ids(arrivals'[e]) = Ids(arrivals[e])
                /\ ~idReused' =>
                      \A id \in Range(Pending(e)) \cap DOMAIN frame_store :
                         /\ id \in DOMAIN frame_store'
                         /\ frame_store'[id] = frame_store[id]]_vars

\* the one frame of /queue/a was taken while /queue/b had a frame pending
C20_Witness ==
    /\ ~idReused
    /\ result.op = "dequeue" /\ result.kind = "frame"
    /\ DOMAIN queue_metadata = Destinations
    /\ queue_metadata["/queue/a"].dequeued = 1
    /\ Len(queue_metadata["/queue/a"].frames) = 0
    /\ queue_metadata["/queue/b"].dequeued = 0
    /\ Len(queue_metadata["/queue/b"].frames) = 1

\* ---------------------------------------------------------------------- C19
\* C19: with finitely many threads and fair scheduling every invoked operation
\* completes and its thread no longer holds the lock; no state is a deadlock
\* (whenever a call is under way some thread can take a step); dequeue, which
\* calls has_frames while it holds the lock, is not blocked by its own lock;
\* and the lock is released when enqueue fails validation.
C19_Progress ==
    /\ \A t \in Threads :
          (pc[t] # "idle") ~> (pc[t] = "idle" /\ lock.owner # t)
    /\ []((\E t \in Threads : pc[t] # "idle")
            => \E t \in Threads : ENABLED (Acquire(t) \/ ThreadRuns(t)))
    /\ [](\A t \in Threads :
            pc[t] = "166" => lock.owner = t /\ ENABLED Line166(t))
    /\ [][\A t \in Threads :
             (pc[t] = "return" /\ local[t].ret.kind = "ValueError" /\ Return(t))
             => lock'.owner = NoThread]_vars

\* t1 is inside has_frames called from dequeue, holding the lock twice, while
\* t2 waits for the lock
C19_Witness ==
    /\ pc["t1"] = "166:191" /\ local["t1"].op = "dequeue"
    /\ lock.owner = "t1" /\ lock.count = 2
    /\ pc["t2"] = "lock"
====
